---- MODULE Spec2Model ----
(***************************************************************************)
(* AgentAuth Python SDK: the retrying request dispatcher                   *)
(* (AgentAuthClient._request + utils.retry_with_backoff), the session      *)
(* fields of the client (access_token, api_key) and the lazily created     *)
(* httpx connection pool (_client) with __aenter__/__aexit__/close.        *)
(*                                                                         *)
(* One asyncio event loop runs the client: a coroutine runs without        *)
(* interleaving up to its next await that really suspends.  The suspension *)
(* points of the code are the transport call (client.request), the backoff *)
(* sleep, and the pool's aclose().                                         *)
(***************************************************************************)
EXTENDS Integers, FiniteSets, Sequences, TLC

\* ---------------------------------------------------------------- bounds
MaxRetriesBound == 3   \* the client is constructed with max_retries in -1..MaxRetriesBound
MaxPools == 2          \* httpx.AsyncClient objects created in one behaviour
MaxAclose == 2         \* aclose() calls recorded per pool
MaxClosing == 1        \* close() calls suspended inside aclose() at one time

\* ------------------------------------------------------------ value sets
None == "None"                       \* Python's None
Tasks == {"A", "B"}                  \* coroutines dispatching through the one client
SetTokens == {"", "t1"}              \* arguments of set_access_token
IssuedTokens == {"t2", "t3"}         \* access tokens the service puts into a 2xx body
InitTokens == {None, "t1"}           \* access_token argument of the constructor
InitKeys == {None, "k1"}             \* api_key argument of the constructor
SetKeys == {"k2"}                    \* arguments of set_api_key

\* HTTP statuses the service answers with: 2xx, the ends of 400-428 and
\* 430-499, 404, 429 and two 5xx.
OkStatuses == {200}
ErrorStatuses == {400, 404, 428, 429, 430, 499, 500, 503}
\* What a non-2xx body can be: a JSON object with an "error" field, a JSON
\* object without one, JSON that is no object (array, string, null), no JSON.
BodyShapes == {"obj_error", "obj_plain", "json_other", "not_json"}
\* httpx.RequestError subclasses: connection failure, per-request timeout.
RequestErrorTypes == {"ConnectError", "ReadTimeout"}

\* A transport outcome: what `await client.request(...)` ends with.  A 2xx
\* answer carries a JSON object, the wire contract of the service.
OkOutcomes ==
    [kind : {"ok"}, code : OkStatuses, body : {"obj"}, exc : {None}, payload : IssuedTokens]
StatusOutcomes ==
    [kind : {"status"}, code : ErrorStatuses, body : BodyShapes, exc : {None}, payload : {None}]
NetOutcomes ==
    [kind : {"net"}, code : {0}, body : {None}, exc : RequestErrorTypes, payload : {None}]
NoOutcome == [kind |-> "none", code |-> 0, body |-> None, exc |-> None, payload |-> None]
Outcomes == OkOutcomes \cup StatusOutcomes \cup NetOutcomes

\* The client methods modelled: [name, requires_auth, rotates the token].
Ops == {"verify_agent", "refresh_token", "revoke_tokens", "list_permissions"}
RequiresAuth(op) == op \in {"revoke_tokens", "register_persona"}
RotatingOps == {"verify_agent", "refresh_token"}

\* ------------------------------------------------------------ exceptions
Exc(type, message, status_code, details) ==
    [type |-> type, message |-> message, status_code |-> status_code, details |-> details]
NoExc == Exc("none", "", 0, None)

\* AgentAuthError.__init__: status_code defaults to 0, details to {}.
AgentAuthError(message, status_code, details) ==
    Exc("AgentAuthError", message, status_code, IF details = None THEN "{}" ELSE details)

\* Mutant: the RequestError branch (utils.py 31-33) is missing.
is_retryable_error_no_network(error) ==
    IF error.type = "HTTPStatusError"
    THEN error.status_code >= 500 \/ error.status_code = 429
    ELSE FALSE

\* Mutant: of the RequestError subclasses only ConnectError is retried.
is_retryable_error_connect_only(error) ==
    IF error.type = "ConnectError" THEN TRUE
    ELSE IF error.type = "HTTPStatusError"
         THEN error.status_code >= 500 \/ error.status_code = 429
         ELSE FALSE

\* utils.is_retryable_error
is_retryable_error(error) ==
    IF error.type \in RequestErrorTypes THEN TRUE
    ELSE IF error.type = "HTTPStatusError"
         THEN error.status_code >= 500 \/ error.status_code = 429
         ELSE FALSE

\* ----------------------------------------------------------------- state
VARIABLES
    access_token,   \* self.access_token
    api_key,        \* self.api_key
    max_retries,    \* self.max_retries
    _client,        \* self._client: NoPool (None) or the index of a pool
    pools,          \* every httpx.AsyncClient created so far, in creation order
    closing,        \* close() calls suspended in `await self._client.aclose()`
    task,           \* per coroutine: the dispatch it is running
    tokenHist,      \* history: every value access_token has held
    base_url,       \* self.base_url, a sequence of characters
    attrs,          \* the attributes __init__ has created on the object
    calc            \* the last call of a function of the library: arguments and outcome

vars == <<access_token, api_key, max_retries, _client, pools, closing, task, tokenHist,
          base_url, attrs, calc>>

NoPool == 0
\* The instance attributes of a constructed client (client.py 73-78).
AllAttrs == {"base_url", "api_key", "access_token", "max_retries", "timeout", "_client"}
\* A base URL the constructor accepts: http://x
InitUrl == <<"h", "t", "t", "p", ":", "/", "/", "x">>
NoCalc == [fn |-> "none"]
Absent == "absent"                   \* a header that is not in the dict
NewPool == [closed |-> FALSE, acloses |-> 0]

\* The "token" member of a 2xx body as response.json() gives it: nested JSON
\* objects are Python dicts.
JsonDict(access) == [pytype |-> "dict", access_token |-> access]
NoData == [pytype |-> "none", access_token |-> None]

\* How make_request / _request / a client method ends.
Returned(data) == [ret |-> "return", exc |-> NoExc, data |-> data]
Raised(e) == [ret |-> "raise", exc |-> e, data |-> NoData]
Pending == [ret |-> "none", exc |-> NoExc, data |-> NoData]

NoHeaders == [content_type |-> Absent, authorization |-> Absent, x_api_key |-> Absent]

IdleTask ==
    [pc |-> "idle", op |-> None, attempt |-> 0, calls |-> 0, waits |-> 0, delay |-> 0,
     headers |-> NoHeaders, pool |-> NoPool, last_exception |-> NoExc,
     outcome |-> NoOutcome, result |-> Pending, method |-> Pending,
     after_loop |-> FALSE, locals |-> Absent, permissions |-> <<>>]

\* Python truthiness of an Optional[str].
Truthy(v) == v \notin {None, ""}

\* Mutant: the token is read once, when the dispatch builds its first
\* request, and reused by the retries.
SessionToken_captured(t) ==
    IF t.calls = 0 THEN access_token
    ELSE IF t.headers.authorization = Absent THEN None ELSE t.headers.authorization

\* self.access_token as make_request reads it, once in every attempt t makes
\* (client.py 134-135).
SessionToken(t) == access_token

\* Mutant: the header is attached whenever a token is stored, whatever
\* requires_auth says.
BuildHeaders_any_request(requires_auth, token) ==
    [content_type |-> "application/json",
     authorization |-> IF Truthy(token) THEN token ELSE Absent,
     x_api_key |-> Absent]

\* make_request, header construction (client.py 132-135); authorization
\* holds the token t of the value "Bearer t".
BuildHeaders(requires_auth, token) ==
    [content_type |-> "application/json",
     authorization |-> IF requires_auth /\ Truthy(token) THEN token ELSE Absent,
     x_api_key |-> Absent]

\* register_persona's local `headers` dict (client.py 465-467): X-Api-Key
\* when a key is stored.  Every other method builds none.
LocalHeaders(op) ==
    IF op = "register_persona" /\ Truthy(api_key) THEN api_key ELSE Absent

\* Mutant: the method's local headers are passed on and merged into the
\* request.
SentHeaders_merged(t) ==
    [BuildHeaders(RequiresAuth(t.op), SessionToken(t)) EXCEPT !.x_api_key = t.locals]

\* The headers given to client.request (client.py 138-144): those built in
\* make_request; _request has no parameter that takes a caller's headers
\* (client.py 104-111, 469-474).
SentHeaders(t) == BuildHeaders(RequiresAuth(t.op), SessionToken(t))

\* response.raise_for_status() on a non-2xx response; str(e) is the status line.
HTTPStatusError(o) == Exc("HTTPStatusError", "status_line", o.code, None)

\* make_request's handler: e.response.json(), or {} when that raises (148-152).
error_body(o) == IF o.body = "not_json" THEN "{}" ELSE o.body

\* make_request from the transport's answer on (client.py 137-158).  A
\* RequestError is not caught and passes through; a 2xx returns the parsed
\* body; a non-2xx is turned into AgentAuthError, unless error_body is no
\* dict, where error_body.get raises AttributeError.
make_request(o) ==
    CASE o.kind = "net" -> Raised(Exc(o.exc, "transport", 0, None))
      [] o.kind = "ok" -> Returned(JsonDict(o.payload))
      [] OTHER ->
            LET e == HTTPStatusError(o)
                b == error_body(o)
            IN  IF b = "json_other"
                THEN Raised(Exc("AttributeError", "get", 0, None))
                ELSE Raised(AgentAuthError(
                         IF b = "obj_error" THEN "body.error" ELSE e.message,
                         e.status_code, b))

\* ---------------------------------------------------------------- backoff
\* Delays are counted in tenths of a second.
DefaultBaseDelay == 10    \* base_delay: float = 1.0
DefaultMaxDelay == 100    \* max_delay: float = 10.0
MaxAttemptIdx == 5        \* attempt indexes the backoff formula is evaluated at
BaseDelays == {DefaultBaseDelay, 20, 30}   \* base_delay arguments of retry_with_backoff
MaxDelays == {20, 30, DefaultMaxDelay}     \* max_delay arguments of retry_with_backoff

Min(a, b) == IF a <= b THEN a ELSE b

\* Mutant: the exponent is the index of the attempt to come.
backoff_delay_next_index(attempt, base_delay, max_delay) ==
    Min(base_delay * (2 ^ (attempt + 1)), max_delay)

\* utils.py 77: delay = min(base_delay * (2**attempt), max_delay)
backoff_delay(attempt, base_delay, max_delay) ==
    Min(base_delay * (2 ^ attempt), max_delay)

\* Mutant: the jitter goes up to 130% of the delay.
JitterValues_wide(delay) == 0..((13 * delay) \div 10)

\* utils.py 78: the values random.uniform(0, 0.3 * delay) can return, both
\* ends included, on the grid of tenths of a second.
JitterValues(delay) == 0..((3 * delay) \div 10)

\* utils.py 79: total_delay = delay + jitter
total_delay(delay, jitter) == delay + jitter

\* Mutant: the loop runs over range(max_retries).
InLoop_short(k) == k \in 0..(max_retries - 1)

\* for attempt in range(max_retries + 1)  (utils.py 66)
InLoop(k) == k \in 0..max_retries

\* Mutant: the attempt index does not advance.
NextAttempt_stuck(k) == k

\* The loop variable's next value (utils.py 66).
NextAttempt(k) == k + 1

\* Mutant: the attempt budget is not consulted.
StopRetry_no_budget(e, attempt) == ~is_retryable_error(e)

\* utils.py 73: `if not is_retryable_error(e) or attempt >= max_retries: raise`
StopRetry(e, attempt) == ~is_retryable_error(e) \/ attempt >= max_retries

\* utils.py 83-86: the code after the loop; .after_loop records that the
\* dispatch came here.
AfterLoop(t) ==
    [t EXCEPT !.pc = "failed", !.after_loop = TRUE,
              !.result = IF t.last_exception # NoExc
                         THEN Raised(t.last_exception)
                         ELSE Raised(AgentAuthError("Retry failed with no exception", 0, None))]

\* The delay of the sleep that follows the failed attempt of t; _request
\* passes max_retries only (client.py 160-163), the delays are the defaults.
Delay(t) == backoff_delay(t.attempt, DefaultBaseDelay, DefaultMaxDelay)

\* Mutant: the result of func() is not returned; the loop goes on.
retry_with_backoff_no_return(t, r) ==
    IF r.ret = "return" \/ ~StopRetry(r.exc, t.attempt)
    THEN [t EXCEPT !.pc = "waiting", !.last_exception = r.exc, !.waits = @ + 1,
                     !.delay = Delay(t)]
    ELSE [t EXCEPT !.pc = "failed", !.last_exception = r.exc, !.result = Raised(r.exc)]

\* Mutant: an exhausted budget raises a new AgentAuthError in place of the
\* attempt's own exception.
retry_with_backoff_wrapped(t, r) ==
    IF r.ret = "return"
    THEN [t EXCEPT !.pc = "done", !.result = r]
    ELSE IF ~is_retryable_error(r.exc)
         THEN [t EXCEPT !.pc = "failed", !.last_exception = r.exc, !.result = Raised(r.exc)]
         ELSE IF t.attempt >= max_retries
              THEN [t EXCEPT !.pc = "failed", !.last_exception = r.exc,
                             !.result = Raised(AgentAuthError("Max retries exceeded", 0, None))]
              ELSE [t EXCEPT !.pc = "waiting", !.last_exception = r.exc, !.waits = @ + 1,
                     !.delay = Delay(t)]

\* retry_with_backoff from the end of `await func()` to the next suspension
\* (utils.py 67-81): return the result, re-raise, or compute the delay and
\* start the sleep; .delay is the delay without the jitter drawn on top.
retry_with_backoff(t, r) ==
    IF r.ret = "return"
    THEN [t EXCEPT !.pc = "done", !.result = r]
    ELSE IF StopRetry(r.exc, t.attempt)
         THEN [t EXCEPT !.pc = "failed", !.last_exception = r.exc, !.result = Raised(r.exc)]
         ELSE [t EXCEPT !.pc = "waiting", !.last_exception = r.exc, !.waits = @ + 1,
                     !.delay = Delay(t)]

\* VerifyAgentResponse(**data) / RefreshTokenResponse(**data): a dataclass
\* stores its arguments as given, so .token stays the dict of the JSON body
\* (types.py 83-99).
Dataclass(data) == data

\* response.token.access_token (client.py 220, 245): attribute access, which
\* a dict does not have.
TokenAccess(response) ==
    IF response.pytype = "Token"
    THEN Returned(response)
    ELSE Raised(Exc("AttributeError", "access_token", 0, None))

\* The client method around _request, run when _request ends (client.py
\* 212-222, 237-247, 256-260, 434): .method is how the method ends, .result
\* and .pc stay those of _request.
MethodEnd(t) ==
    IF t.pc \notin {"done", "failed"} THEN t
    ELSE IF t.pc = "done" /\ t.op \in RotatingOps
         THEN LET a == TokenAccess(Dataclass(t.result.data))
              IN  [t EXCEPT !.method = IF a.ret = "return" THEN t.result ELSE a]
         ELSE [t EXCEPT !.method = t.result]

\* Mutant: the token of the body is stored as soon as _request returns,
\* before the method has built its response.
TokenAfter_unchecked(t) ==
    IF t.pc = "done" /\ t.op \in RotatingOps
    THEN t.result.data.access_token
    ELSE access_token

\* The access token the method leaves in the session (client.py 220, 245, 96-98).
TokenAfter(t) ==
    IF t.pc = "done" /\ t.op \in RotatingOps
       /\ TokenAccess(Dataclass(t.result.data)).ret = "return"
    THEN t.result.data.access_token
    ELSE access_token

\* ------------------------------------------------------------ dispatcher
\* One pass of the loop body up to the suspension in client.request:
\* _get_client (client.py 90-94), the headers (132-135) and the call
\* (138-144).  httpx refuses a request on a client that was aclose()d with
\* RuntimeError, which make_request does not catch.
Attempt(d, t) ==
    LET p == IF _client = NoPool THEN Len(pools) + 1 ELSE _client
        ps == IF _client = NoPool THEN Append(pools, NewPool) ELSE pools
        sent == [t EXCEPT !.calls = @ + 1,
                          !.headers = SentHeaders(t),
                          !.pool = p,
                          !.outcome = NoOutcome]
        refused == Raised(Exc("RuntimeError", "client has been closed", 0, None))
    IN  /\ _client = NoPool => Len(pools) < MaxPools
        /\ _client' = p
        /\ pools' = ps
        /\ task' = [task EXCEPT ![d] =
                        IF ps[p].closed
                        THEN MethodEnd(retry_with_backoff(sent, refused))
                        ELSE [sent EXCEPT !.pc = "inflight"]]
        /\ UNCHANGED <<access_token, api_key, max_retries, base_url, attrs, calc, closing, tokenHist>>

\* A coroutine calls a client method: _request runs retry_with_backoff up to
\* the first transport call (client.py 104-163, utils.py 64-68).
Start(d, t) ==
    /\ task[d].pc = "idle"
    /\ IF InLoop(0)
       THEN Attempt(d, t)
       ELSE /\ task' = [task EXCEPT ![d] = MethodEnd(AfterLoop(t))]
            /\ UNCHANGED <<access_token, api_key, max_retries, base_url, attrs, calc,
                           _client, pools, closing, tokenHist>>

\* A method whose request body is fixed by the method and its arguments
\* (client.py 197-260, 427-475).
Call(d, op) ==
    Start(d, [IdleTask EXCEPT !.op = op, !.locals = LocalHeaders(op)])

\* register_agent(name, owner_email, permissions) (client.py 169-195): the
\* list goes into the JSON body as it is given.
register_agent(d, permissions) ==
    Start(d, [IdleTask EXCEPT !.op = "register_agent", !.permissions = permissions])

\* The transport call of d ends with outcome o: make_request finishes, and
\* retry_with_backoff returns, raises or goes to sleep; when it returns, the
\* client method goes on to its end without suspending.
Respond(d, o) ==
    /\ task[d].pc = "inflight"
    /\ LET t == retry_with_backoff([task[d] EXCEPT !.outcome = o], make_request(o))
       IN  /\ task' = [task EXCEPT ![d] = MethodEnd(t)]
           /\ access_token' = TokenAfter(t)
           /\ tokenHist' = tokenHist \cup {TokenAfter(t)}
    /\ UNCHANGED <<api_key, max_retries, base_url, attrs, calc, _client, pools, closing>>

\* asyncio.sleep(total_delay) is over: the for loop takes its next value
\* (utils.py 81, 66), or ends.
WakeUp(d) ==
    /\ task[d].pc = "waiting"
    /\ LET t == [task[d] EXCEPT !.attempt = NextAttempt(@)]
       IN  IF InLoop(t.attempt)
           THEN Attempt(d, t)
           ELSE /\ task' = [task EXCEPT ![d] = MethodEnd(AfterLoop(t))]
                /\ UNCHANGED <<access_token, api_key, max_retries, base_url, attrs, calc, _client, pools,
                               closing, tokenHist>>

\* The caller has the method's result or exception; the coroutine is free
\* for its next call.
Return(d) ==
    /\ task[d].pc \in {"done", "failed"}
    /\ task' = [task EXCEPT ![d] = IdleTask]
    /\ UNCHANGED <<access_token, api_key, max_retries, base_url, attrs, calc, _client, pools, closing, tokenHist>>

\* --------------------------------------------------------------- session
\* client.py 96-98
set_access_token(token) ==
    /\ access_token' = token
    /\ tokenHist' = tokenHist \cup {token}
    /\ UNCHANGED <<api_key, max_retries, base_url, attrs, calc, _client, pools, closing, task>>

\* client.py 100-102
set_api_key(key) ==
    /\ api_key' = key
    /\ UNCHANGED <<access_token, max_retries, base_url, attrs, calc, _client, pools, closing, task, tokenHist>>

\* ------------------------------------------------------------------ pool
\* httpx.AsyncClient.aclose() called on pool p.
aclose(p) == [pools EXCEPT ![p].closed = TRUE, ![p].acloses = @ + 1]

\* client.py 80-83
aenter ==
    /\ Len(pools) < MaxPools
    /\ pools' = Append(pools, NewPool)
    /\ _client' = Len(pools) + 1
    /\ UNCHANGED <<access_token, api_key, max_retries, base_url, attrs, calc, closing, task, tokenHist>>

\* client.py 85-88
aexit ==
    /\ IF _client # NoPool
       THEN /\ pools[_client].acloses < MaxAclose
            /\ pools' = aclose(_client)
       ELSE UNCHANGED pools
    /\ UNCHANGED <<access_token, api_key, max_retries, base_url, attrs, calc, _client, closing, task, tokenHist>>

\* client.py 854-857: close() up to the suspension in aclose().
close_begin ==
    /\ IF _client # NoPool
       THEN /\ closing < MaxClosing
            /\ pools[_client].acloses < MaxAclose
            /\ pools' = aclose(_client)
            /\ closing' = closing + 1
       ELSE UNCHANGED <<pools, closing>>
    /\ UNCHANGED <<access_token, api_key, max_retries, base_url, attrs, calc, _client, task, tokenHist>>

\* client.py 858: close() resumes after aclose().
close_end ==
    /\ closing > 0
    /\ closing' = closing - 1
    /\ _client' = NoPool
    /\ UNCHANGED <<access_token, api_key, max_retries, base_url, attrs, calc, pools, task, tokenHist>>

\* ----------------------------------------------------------- constructor
MaxTailLen == 3   \* characters after the prefix of a base URL given to the constructor

\* Strings are sequences of characters.
Http == <<"h", "t", "t", "p", ":", "/", "/">>
Https == <<"h", "t", "t", "p", "s", ":", "/", "/">>
\* How the base_url argument begins: the two schemes, near misses, nothing.
UrlPrefixes ==
    {<<>>, Http, Https,
     <<"h", "t", "t", "p", ":", "/">>,
     <<"h", "t", "t", "p", "s", ":", "/">>,
     <<"f", "t", "p", ":", "/", "/">>,
     <<"/", "/">>}
UrlTails == UNION {[1..n -> {"x", "/", ":"}] : n \in 0..MaxTailLen}
\* base_url arguments of the constructor.
UrlInputs == {p \o t : p \in UrlPrefixes, t \in UrlTails}
InitRetries == -1..MaxRetriesBound   \* max_retries arguments of the constructor

\* str.startswith / str.endswith
startswith(s, prefix) ==
    Len(s) >= Len(prefix) /\ SubSeq(s, 1, Len(prefix)) = prefix
endswith(s, suffix) ==
    Len(s) >= Len(suffix) /\ SubSeq(s, Len(s) - Len(suffix) + 1, Len(s)) = suffix

\* str.rstrip(ch)
RECURSIVE rstrip(_, _)
rstrip(s, ch) ==
    IF s # <<>> /\ s[Len(s)] = ch THEN rstrip(SubSeq(s, 1, Len(s) - 1), ch) ELSE s

ValueError(message) == Exc("ValueError", message, 0, None)

\* Mutant: the trailing-slash test (utils.py 109-110) is missing.
validate_base_url_slash_allowed(url) ==
    IF url = <<>>
    THEN Raised(ValueError("base_url must be a non-empty string"))
    ELSE IF ~(startswith(url, Http) \/ startswith(url, Https))
         THEN Raised(ValueError("base_url must start with http:// or https://"))
         ELSE Returned(NoData)

\* utils.validate_base_url (utils.py 89-110) on a str argument.
validate_base_url(url) ==
    IF url = <<>>
    THEN Raised(ValueError("base_url must be a non-empty string"))
    ELSE IF ~(startswith(url, Http) \/ startswith(url, Https))
         THEN Raised(ValueError("base_url must start with http:// or https://"))
         ELSE IF endswith(url, <<"/">>)
              THEN Raised(ValueError("base_url must not end with a trailing slash"))
              ELSE Returned(NoData)

\* AgentAuthClient.__init__ (client.py 54-78): validation first, then the
\* six assignments; an exception of the validation leaves the object bare.
\* It runs once, on the new object.
client_init(url, key, token, retries) ==
    LET v == validate_base_url(url)
    IN  /\ attrs = {} /\ calc = NoCalc
        /\ calc' = [fn |-> "__init__", url |-> url, out |-> v]
        /\ IF v.ret = "raise"
           THEN UNCHANGED <<access_token, api_key, max_retries, _client, tokenHist,
                            base_url, attrs>>
           ELSE /\ base_url' = rstrip(url, "/")
                /\ api_key' = key
                /\ access_token' = token
                /\ max_retries' = retries
                /\ _client' = NoPool
                /\ tokenHist' = {token}
                /\ attrs' = AllAttrs
        /\ UNCHANGED <<pools, closing, task>>

\* utils.py 76-81 for given arguments: the delay after failed attempt number
\* `attempt`, the jitter drawn, and the time slept.  One evaluation is
\* recorded in a behaviour.
backoff_wait(attempt, base_delay, max_delay, jitter) ==
    LET delay == backoff_delay(attempt, base_delay, max_delay)
    IN  /\ calc = NoCalc
        /\ jitter \in JitterValues(delay)
        /\ calc' = [fn |-> "backoff", attempt |-> attempt, base_delay |-> base_delay,
                    max_delay |-> max_delay, delay |-> delay, jitter |-> jitter,
                    total_delay |-> total_delay(delay, jitter)]
        /\ UNCHANGED <<access_token, api_key, max_retries, base_url, attrs, _client,
                       pools, closing, task, tokenHist>>

\* ------------------------------------------------------------ permissions
\* Strings are sequences of characters.
\* The members of the Permission type (permissions.py 10-65), each string as
\* the sequence of its characters.
PermissionLiterals ==
    {<<"z", "e", "n", "d", "e", "s", "k", ":", "t", "i", "c", "k", "e", "t", "s", ":", "r", "e", "a", "d">>,
     <<"z", "e", "n", "d", "e", "s", "k", ":", "t", "i", "c", "k", "e", "t", "s", ":", "w", "r", "i", "t", "e">>,
     <<"z", "e", "n", "d", "e", "s", "k", ":", "u", "s", "e", "r", "s", ":", "r", "e", "a", "d">>,
     <<"z", "e", "n", "d", "e", "s", "k", ":", "u", "s", "e", "r", "s", ":", "w", "r", "i", "t", "e">>,
     <<"z", "e", "n", "d", "e", "s", "k", ":", "t", "i", "c", "k", "e", "t", "s", ":", "*">>,
     <<"z", "e", "n", "d", "e", "s", "k", ":", "u", "s", "e", "r", "s", ":", "*">>,
     <<"z", "e", "n", "d", "e", "s", "k", ":", "*", ":", "*">>,
     <<"s", "l", "a", "c", "k", ":", "m", "e", "s", "s", "a", "g", "e", "s", ":", "r", "e", "a", "d">>,
     <<"s", "l", "a", "c", "k", ":", "m", "e", "s", "s", "a", "g", "e", "s", ":", "w", "r", "i", "t", "e">>,
     <<"s", "l", "a", "c", "k", ":", "c", "h", "a", "n", "n", "e", "l", "s", ":", "r", "e", "a", "d">>,
     <<"s", "l", "a", "c", "k", ":", "c", "h", "a", "n", "n", "e", "l", "s", ":", "w", "r", "i", "t", "e">>,
     <<"s", "l", "a", "c", "k", ":", "m", "e", "s", "s", "a", "g", "e", "s", ":", "*">>,
     <<"s", "l", "a", "c", "k", ":", "c", "h", "a", "n", "n", "e", "l", "s", ":", "*">>,
     <<"s", "l", "a", "c", "k", ":", "*", ":", "*">>,
     <<"h", "u", "b", "s", "p", "o", "t", ":", "c", "o", "n", "t", "a", "c", "t", "s", ":", "r", "e", "a", "d">>,
     <<"h", "u", "b", "s", "p", "o", "t", ":", "c", "o", "n", "t", "a", "c", "t", "s", ":", "w", "r", "i", "t", "e">>,
     <<"h", "u", "b", "s", "p", "o", "t", ":", "d", "e", "a", "l", "s", ":", "r", "e", "a", "d">>,
     <<"h", "u", "b", "s", "p", "o", "t", ":", "d", "e", "a", "l", "s", ":", "w", "r", "i", "t", "e">>,
     <<"h", "u", "b", "s", "p", "o", "t", ":", "c", "o", "m", "p", "a", "n", "i", "e", "s", ":", "r", "e", "a", "d">>,
     <<"h", "u", "b", "s", "p", "o", "t", ":", "c", "o", "n", "t", "a", "c", "t", "s", ":", "*">>,
     <<"h", "u", "b", "s", "p", "o", "t", ":", "d", "e", "a", "l", "s", ":", "*">>,
     <<"h", "u", "b", "s", "p", "o", "t", ":", "c", "o", "m", "p", "a", "n", "i", "e", "s", ":", "*">>,
     <<"h", "u", "b", "s", "p", "o", "t", ":", "*", ":", "*">>,
     <<"g", "i", "t", "h", "u", "b", ":", "r", "e", "p", "o", "s", ":", "r", "e", "a", "d">>,
     <<"g", "i", "t", "h", "u", "b", ":", "r", "e", "p", "o", "s", ":", "w", "r", "i", "t", "e">>,
     <<"g", "i", "t", "h", "u", "b", ":", "i", "s", "s", "u", "e", "s", ":", "r", "e", "a", "d">>,
     <<"g", "i", "t", "h", "u", "b", ":", "i", "s", "s", "u", "e", "s", ":", "w", "r", "i", "t", "e">>,
     <<"g", "i", "t", "h", "u", "b", ":", "p", "u", "l", "l", "_", "r", "e", "q", "u", "e", "s", "t", "s", ":", "r", "e", "a", "d">>,
     <<"g", "i", "t", "h", "u", "b", ":", "r", "e", "p", "o", "s", ":", "*">>,
     <<"g", "i", "t", "h", "u", "b", ":", "i", "s", "s", "u", "e", "s", ":", "*">>,
     <<"g", "i", "t", "h", "u", "b", ":", "p", "u", "l", "l", "_", "r", "e", "q", "u", "e", "s", "t", "s", ":", "*">>,
     <<"g", "i", "t", "h", "u", "b", ":", "*", ":", "*">>,
     <<"s", "a", "l", "e", "s", "f", "o", "r", "c", "e", ":", "a", "c", "c", "o", "u", "n", "t", "s", ":", "r", "e", "a", "d">>,
     <<"s", "a", "l", "e", "s", "f", "o", "r", "c", "e", ":", "a", "c", "c", "o", "u", "n", "t", "s", ":", "w", "r", "i", "t", "e">>,
     <<"s", "a", "l", "e", "s", "f", "o", "r", "c", "e", ":", "l", "e", "a", "d", "s", ":", "r", "e", "a", "d">>,
     <<"s", "a", "l", "e", "s", "f", "o", "r", "c", "e", ":", "l", "e", "a", "d", "s", ":", "w", "r", "i", "t", "e">>,
     <<"s", "a", "l", "e", "s", "f", "o", "r", "c", "e", ":", "a", "c", "c", "o", "u", "n", "t", "s", ":", "*">>,
     <<"s", "a", "l", "e", "s", "f", "o", "r", "c", "e", ":", "l", "e", "a", "d", "s", ":", "*">>,
     <<"s", "a", "l", "e", "s", "f", "o", "r", "c", "e", ":", "*", ":", "*">>,
     <<"s", "t", "r", "i", "p", "e", ":", "p", "a", "y", "m", "e", "n", "t", "s", ":", "r", "e", "a", "d">>,
     <<"s", "t", "r", "i", "p", "e", ":", "c", "u", "s", "t", "o", "m", "e", "r", "s", ":", "r", "e", "a", "d">>,
     <<"s", "t", "r", "i", "p", "e", ":", "i", "n", "v", "o", "i", "c", "e", "s", ":", "r", "e", "a", "d">>,
     <<"s", "t", "r", "i", "p", "e", ":", "p", "a", "y", "m", "e", "n", "t", "s", ":", "*">>,
     <<"s", "t", "r", "i", "p", "e", ":", "c", "u", "s", "t", "o", "m", "e", "r", "s", ":", "*">>,
     <<"s", "t", "r", "i", "p", "e", ":", "i", "n", "v", "o", "i", "c", "e", "s", ":", "*">>,
     <<"s", "t", "r", "i", "p", "e", ":", "*", ":", "*">>,
     <<"*", ":", "*", ":", "*">>}

\* The Permissions registry (permissions.py 68-254): the attribute path from
\* the Permissions singleton to each constant, and the constant's string.
Registry ==
    {[path |-> <<"Zendesk", "Tickets", "Read">>,
      value |-> <<"z", "e", "n", "d", "e", "s", "k", ":", "t", "i", "c", "k", "e", "t", "s", ":", "r", "e", "a", "d">>],
     [path |-> <<"Zendesk", "Tickets", "Write">>,
      value |-> <<"z", "e", "n", "d", "e", "s", "k", ":", "t", "i", "c", "k", "e", "t", "s", ":", "w", "r", "i", "t", "e">>],
     [path |-> <<"Zendesk", "Tickets", "All">>,
      value |-> <<"z", "e", "n", "d", "e", "s", "k", ":", "t", "i", "c", "k", "e", "t", "s", ":", "*">>],
     [path |-> <<"Zendesk", "Users", "Read">>,
      value |-> <<"z", "e", "n", "d", "e", "s", "k", ":", "u", "s", "e", "r", "s", ":", "r", "e", "a", "d">>],
     [path |-> <<"Zendesk", "Users", "Write">>,
      value |-> <<"z", "e", "n", "d", "e", "s", "k", ":", "u", "s", "e", "r", "s", ":", "w", "r", "i", "t", "e">>],
     [path |-> <<"Zendesk", "Users", "All">>,
      value |-> <<"z", "e", "n", "d", "e", "s", "k", ":", "u", "s", "e", "r", "s", ":", "*">>],
     [path |-> <<"Zendesk", "All">>,
      value |-> <<"z", "e", "n", "d", "e", "s", "k", ":", "*", ":", "*">>],
     [path |-> <<"Slack", "Messages", "Read">>,
      value |-> <<"s", "l", "a", "c", "k", ":", "m", "e", "s", "s", "a", "g", "e", "s", ":", "r", "e", "a", "d">>],
     [path |-> <<"Slack", "Messages", "Write">>,
      value |-> <<"s", "l", "a", "c", "k", ":", "m", "e", "s", "s", "a", "g", "e", "s", ":", "w", "r", "i", "t", "e">>],
     [path |-> <<"Slack", "Messages", "All">>,
      value |-> <<"s", "l", "a", "c", "k", ":", "m", "e", "s", "s", "a", "g", "e", "s", ":", "*">>],
     [path |-> <<"Slack", "Channels", "Read">>,
      value |-> <<"s", "l", "a", "c", "k", ":", "c", "h", "a", "n", "n", "e", "l", "s", ":", "r", "e", "a", "d">>],
     [path |-> <<"Slack", "Channels", "Write">>,
      value |-> <<"s", "l", "a", "c", "k", ":", "c", "h", "a", "n", "n", "e", "l", "s", ":", "w", "r", "i", "t", "e">>],
     [path |-> <<"Slack", "Channels", "All">>,
      value |-> <<"s", "l", "a", "c", "k", ":", "c", "h", "a", "n", "n", "e", "l", "s", ":", "*">>],
     [path |-> <<"Slack", "All">>,
      value |-> <<"s", "l", "a", "c", "k", ":", "*", ":", "*">>],
     [path |-> <<"HubSpot", "Contacts", "Read">>,
      value |-> <<"h", "u", "b", "s", "p", "o", "t", ":", "c", "o", "n", "t", "a", "c", "t", "s", ":", "r", "e", "a", "d">>],
     [path |-> <<"HubSpot", "Contacts", "Write">>,
      value |-> <<"h", "u", "b", "s", "p", "o", "t", ":", "c", "o", "n", "t", "a", "c", "t", "s", ":", "w", "r", "i", "t", "e">>],
     [path |-> <<"HubSpot", "Contacts", "All">>,
      value |-> <<"h", "u", "b", "s", "p", "o", "t", ":", "c", "o", "n", "t", "a", "c", "t", "s", ":", "*">>],
     [path |-> <<"HubSpot", "Deals", "Read">>,
      value |-> <<"h", "u", "b", "s", "p", "o", "t", ":", "d", "e", "a", "l", "s", ":", "r", "e", "a", "d">>],
     [path |-> <<"HubSpot", "Deals", "Write">>,
      value |-> <<"h", "u", "b", "s", "p", "o", "t", ":", "d", "e", "a", "l", "s", ":", "w", "r", "i", "t", "e">>],
     [path |-> <<"HubSpot", "Deals", "All">>,
      value |-> <<"h", "u", "b", "s", "p", "o", "t", ":", "d", "e", "a", "l", "s", ":", "*">>],
     [path |-> <<"HubSpot", "Companies", "Read">>,
      value |-> <<"h", "u", "b", "s", "p", "o", "t", ":", "c", "o", "m", "p", "a", "n", "i", "e", "s", ":", "r", "e", "a", "d">>],
     [path |-> <<"HubSpot", "Companies", "All">>,
      value |-> <<"h", "u", "b", "s", "p", "o", "t", ":", "c", "o", "m", "p", "a", "n", "i", "e", "s", ":", "*">>],
     [path |-> <<"HubSpot", "All">>,
      value |-> <<"h", "u", "b", "s", "p", "o", "t", ":", "*", ":", "*">>],
     [path |-> <<"GitHub", "Repos", "Read">>,
      value |-> <<"g", "i", "t", "h", "u", "b", ":", "r", "e", "p", "o", "s", ":", "r", "e", "a", "d">>],
     [path |-> <<"GitHub", "Repos", "Write">>,
      value |-> <<"g", "i", "t", "h", "u", "b", ":", "r", "e", "p", "o", "s", ":", "w", "r", "i", "t", "e">>],
     [path |-> <<"GitHub", "Repos", "All">>,
      value |-> <<"g", "i", "t", "h", "u", "b", ":", "r", "e", "p", "o", "s", ":", "*">>],
     [path |-> <<"GitHub", "Issues", "Read">>,
      value |-> <<"g", "i", "t", "h", "u", "b", ":", "i", "s", "s", "u", "e", "s", ":", "r", "e", "a", "d">>],
     [path |-> <<"GitHub", "Issues", "Write">>,
      value |-> <<"g", "i", "t", "h", "u", "b", ":", "i", "s", "s", "u", "e", "s", ":", "w", "r", "i", "t", "e">>],
     [path |-> <<"GitHub", "Issues", "All">>,
      value |-> <<"g", "i", "t", "h", "u", "b", ":", "i", "s", "s", "u", "e", "s", ":", "*">>],
     [path |-> <<"GitHub", "PullRequests", "Read">>,
      value |-> <<"g", "i", "t", "h", "u", "b", ":", "p", "u", "l", "l", "_", "r", "e", "q", "u", "e", "s", "t", "s", ":", "r", "e", "a", "d">>],
     [path |-> <<"GitHub", "PullRequests", "All">>,
      value |-> <<"g", "i", "t", "h", "u", "b", ":", "p", "u", "l", "l", "_", "r", "e", "q", "u", "e", "s", "t", "s", ":", "*">>],
     [path |-> <<"GitHub", "All">>,
      value |-> <<"g", "i", "t", "h", "u", "b", ":", "*", ":", "*">>],
     [path |-> <<"Salesforce", "Accounts", "Read">>,
      value |-> <<"s", "a", "l", "e", "s", "f", "o", "r", "c", "e", ":", "a", "c", "c", "o", "u", "n", "t", "s", ":", "r", "e", "a", "d">>],
     [path |-> <<"Salesforce", "Accounts", "Write">>,
      value |-> <<"s", "a", "l", "e", "s", "f", "o", "r", "c", "e", ":", "a", "c", "c", "o", "u", "n", "t", "s", ":", "w", "r", "i", "t", "e">>],
     [path |-> <<"Salesforce", "Accounts", "All">>,
      value |-> <<"s", "a", "l", "e", "s", "f", "o", "r", "c", "e", ":", "a", "c", "c", "o", "u", "n", "t", "s", ":", "*">>],
     [path |-> <<"Salesforce", "Leads", "Read">>,
      value |-> <<"s", "a", "l", "e", "s", "f", "o", "r", "c", "e", ":", "l", "e", "a", "d", "s", ":", "r", "e", "a", "d">>],
     [path |-> <<"Salesforce", "Leads", "Write">>,
      value |-> <<"s", "a", "l", "e", "s", "f", "o", "r", "c", "e", ":", "l", "e", "a", "d", "s", ":", "w", "r", "i", "t", "e">>],
     [path |-> <<"Salesforce", "Leads", "All">>,
      value |-> <<"s", "a", "l", "e", "s", "f", "o", "r", "c", "e", ":", "l", "e", "a", "d", "s", ":", "*">>],
     [path |-> <<"Salesforce", "All">>,
      value |-> <<"s", "a", "l", "e", "s", "f", "o", "r", "c", "e", ":", "*", ":", "*">>],
     [path |-> <<"Stripe", "Payments", "Read">>,
      value |-> <<"s", "t", "r", "i", "p", "e", ":", "p", "a", "y", "m", "e", "n", "t", "s", ":", "r", "e", "a", "d">>],
     [path |-> <<"Stripe", "Customers", "Read">>,
      value |-> <<"s", "t", "r", "i", "p", "e", ":", "c", "u", "s", "t", "o", "m", "e", "r", "s", ":", "r", "e", "a", "d">>],
     [path |-> <<"Stripe", "Invoices", "Read">>,
      value |-> <<"s", "t", "r", "i", "p", "e", ":", "i", "n", "v", "o", "i", "c", "e", "s", ":", "r", "e", "a", "d">>],
     [path |-> <<"Stripe", "All">>,
      value |-> <<"s", "t", "r", "i", "p", "e", ":", "*", ":", "*">>],
     [path |-> <<"Admin">>,
      value |-> <<"*", ":", "*", ":", "*">>]}

\* str.split(sep): the segments of s between the separators.
RECURSIVE split(_, _)
split(s, sep) ==
    IF \A i \in 1..Len(s) : s[i] # sep
    THEN <<s>>
    ELSE LET i == CHOOSE k \in 1..Len(s) :
                      s[k] = sep /\ \A j \in 1..(k - 1) : s[j] # sep
         IN  <<SubSeq(s, 1, i - 1)>> \o split(SubSeq(s, i + 1, Len(s)), sep)

Star == <<"*">>      \* the wildcard segment

\* The members of the Permission type as the sequences of their segments.
Permission == {split(p, ":") : p \in PermissionLiterals}

\* Well-formed permissions beside the catalogue: wildcards at every position.
PermServices == {Star, <<"z", "e", "n", "d", "e", "s", "k">>, <<"s", "l", "a", "c", "k">>}
PermResources == {Star, <<"t", "i", "c", "k", "e", "t", "s">>, <<"u", "s", "e", "r", "s">>}
PermActions == {Star, <<"r", "e", "a", "d">>, <<"w", "r", "i", "t", "e">>}
PermInputs ==
    Permission \cup {<<s, r, a>> : s \in PermServices, r \in PermResources, a \in PermActions}

\* Mutant: a wildcard on either side matches.
matches_symmetric(held, required) ==
    \A i \in 1..3 : held[i] = Star \/ required[i] = Star \/ held[i] = required[i]

\* matches(held, required) of the permission grammar: position by position,
\* held's segment is "*" or equals required's.
matches(held, required) ==
    \A i \in 1..3 : held[i] = Star \/ held[i] = required[i]

\* The attribute names at the three levels below the Permissions singleton.
RegistryPaths ==
    LET level(n) == {e.path[n] : e \in {r \in Registry : Len(r.path) >= n}}
    IN  {<<a>> : a \in level(1)}
        \cup {<<a, b>> : a \in level(1), b \in level(2)}
        \cup {<<a, b, c>> : a \in level(1), b \in level(2), c \in level(3)}

\* Mutant: the constant is cut before its last colon.
registry_get_cut(path) ==
    IF \E e \in Registry : e.path = path
    THEN LET v == (CHOOSE e \in Registry : e.path = path).value
             k == CHOOSE i \in 1..Len(v) :
                      v[i] = ":" /\ \A j \in (i + 1)..Len(v) : v[j] # ":"
         IN  [out |-> "value", value |-> SubSeq(v, 1, k - 1)]
    ELSE IF \E e \in Registry :
                Len(e.path) > Len(path) /\ SubSeq(e.path, 1, Len(path)) = path
         THEN [out |-> "object", value |-> <<>>]
         ELSE [out |-> "AttributeError", value |-> <<>>]

\* Attribute access along `path` from Permissions (permissions.py 68-254):
\* a permission constant, a nested namespace object, or AttributeError.
registry_get(path) ==
    IF \E e \in Registry : e.path = path
    THEN [out |-> "value", value |-> (CHOOSE e \in Registry : e.path = path).value]
    ELSE IF \E e \in Registry :
                Len(e.path) > Len(path) /\ SubSeq(e.path, 1, Len(path)) = path
         THEN [out |-> "object", value |-> <<>>]
         ELSE [out |-> "AttributeError", value |-> <<>>]

\* One attribute access on the registry, recorded with its path.
registry_call(path) ==
    /\ calc = NoCalc
    /\ calc' = [fn |-> "Permissions", path |-> path, got |-> registry_get(path)]
    /\ UNCHANGED <<access_token, api_key, max_retries, base_url, attrs, _client,
                   pools, closing, task, tokenHist>>

\* One call of matches, recorded with its arguments.
matches_call(held, required) ==
    /\ calc = NoCalc
    /\ calc' = [fn |-> "matches", held |-> held, required |-> required,
                out |-> matches(held, required)]
    /\ UNCHANGED <<access_token, api_key, max_retries, base_url, attrs, _client,
                   pools, closing, task, tokenHist>>

\* ^[a-z][a-z0-9_]*$ : the first character and the following ones.
IdentStart ==
    {"a", "b", "c", "d", "e", "f", "g", "h", "i", "j", "k", "l", "m",
     "n", "o", "p", "q", "r", "s", "t", "u", "v", "w", "x", "y", "z"}
IdentRest == IdentStart \cup {"0", "1", "2", "3", "4", "5", "6", "7", "8", "9", "_"}

\* validate(permission): exactly three segments, each "*" or an identifier
\* (an empty segment is neither).
validate(permission) ==
    LET segs == split(permission, ":")
    IN  /\ Len(segs) = 3
        /\ \A i \in 1..3 :
              \/ segs[i] = Star
              \/ /\ segs[i] # <<>>
                 /\ segs[i][1] \in IdentStart
                 /\ \A k \in 1..Len(segs[i]) : segs[i][k] \in IdentRest

\* Mutant: every held permission has to match.
has_permission_all(held_set, required) ==
    /\ validate(required)
    /\ \A h \in held_set : matches(split(h, ":"), split(required, ":"))

\* has_permission(held_set, required): required is well-formed and at least
\* one element of held_set matches it.
has_permission(held_set, required) ==
    /\ validate(required)
    /\ \E h \in held_set : matches(split(h, ":"), split(required, ":"))

\* Permissions an agent may hold, and the strings asked for: every member
\* of the Permission type and malformed strings (two segments, four
\* segments, an uppercase letter, an empty segment, the empty string).
ZendeskAll == <<"z", "e", "n", "d", "e", "s", "k", ":", "*", ":", "*">>
ZendeskTicketsRead == <<"z", "e", "n", "d", "e", "s", "k", ":", "t", "i", "c", "k", "e", "t", "s", ":", "r", "e", "a", "d">>
ZendeskTicketsWrite == <<"z", "e", "n", "d", "e", "s", "k", ":", "t", "i", "c", "k", "e", "t", "s", ":", "w", "r", "i", "t", "e">>
SlackAll == <<"s", "l", "a", "c", "k", ":", "*", ":", "*">>
Admin == <<"*", ":", "*", ":", "*">>
HeldPool == {ZendeskAll, ZendeskTicketsRead, SlackAll, Admin}
Malformed ==
    {<<"z", "e", "n", "d", "e", "s", "k", ":", "t", "i", "c", "k", "e", "t", "s">>,
     <<"z", "e", "n", "d", "e", "s", "k", ":", "t", "i", "c", "k", "e", "t", "s", ":", "w", "r", "i", "t", "e", ":", "a", "l", "l">>,
     <<"Z", "e", "n", "d", "e", "s", "k", ":", "t", "i", "c", "k", "e", "t", "s", ":", "w", "r", "i", "t", "e">>,
     <<"z", "e", "n", "d", "e", "s", "k", ":", ":", "w", "r", "i", "t", "e">>,
     <<"z", "e", "n", "d", "e", "s", "k", ":", "t", "i", "c", "k", "e", "t", "s", ":">>,
     <<>>}
RequiredInputs == PermissionLiterals \cup Malformed

\* One call of has_permission, recorded with its arguments.
has_permission_call(held_set, required) ==
    /\ calc = NoCalc
    /\ calc' = [fn |-> "has_permission", held_set |-> held_set,
                required |-> required,
                out |-> has_permission(held_set, required)]
    /\ UNCHANGED <<access_token, api_key, max_retries, base_url, attrs, _client,
                   pools, closing, task, tokenHist>>

\* ------------------------------------------------------- specifications
\* The state after AgentAuthClient.__init__ (client.py 72-78).
Init ==
    /\ access_token \in InitTokens
    /\ api_key \in InitKeys
    /\ max_retries \in -1..MaxRetriesBound
    /\ _client = NoPool
    /\ pools = <<>>
    /\ closing = 0
    /\ task = [d \in Tasks |-> IdleTask]
    /\ tokenHist = {access_token}
    /\ base_url = InitUrl
    /\ attrs = AllAttrs
    /\ calc = NoCalc

\* One coroutine, every transport outcome.
Next ==
    \/ \E op \in Ops : Call("A", op)
    \/ \E o \in Outcomes : Respond("A", o)
    \/ WakeUp("A")
    \/ Return("A")
    \/ \E tok \in SetTokens : set_access_token(tok)
    \/ \E key \in SetKeys : set_api_key(key)

Spec == Init /\ [][Next]_vars

\* asyncio.sleep(total_delay) ends after its finite delay (utils.py 81), so a
\* sleeping dispatch is resumed.
SpecLive == Spec /\ WF_vars(WakeUp("A"))

\* Every transport call ends as well: httpx answers, fails or times out
\* (timeout=self.timeout, client.py 92).
SpecTerm == SpecLive /\ WF_vars(\E o \in Outcomes : Respond("A", o))

\* Two coroutines on the one client, a sample of the outcomes.
ConcOutcomes ==
    {o \in Outcomes :
        \/ o.kind = "ok" /\ o.payload = "t2"
        \/ o.kind = "net" /\ o.exc = "ConnectError"
        \/ o.kind = "status" /\ o.code \in {404, 503} /\ o.body = "obj_error"}
ConcOps == {"verify_agent", "revoke_tokens"}

NextConc ==
    \/ \E d \in Tasks, op \in ConcOps : Call(d, op)
    \/ \E d \in Tasks, o \in ConcOutcomes : Respond(d, o)
    \/ \E d \in Tasks : WakeUp(d)
    \/ \E d \in Tasks : Return(d)
    \/ \E tok \in SetTokens : set_access_token(tok)

SpecConc == Init /\ [][NextConc]_vars

\* The pool's life: context manager, close(), and dispatches that create
\* and use the pool.
PoolOutcomes ==
    {o \in Outcomes :
        \/ o.kind = "ok" /\ o.payload = "t2"
        \/ o.kind = "net" /\ o.exc = "ConnectError"}

NextPool ==
    \/ Call("A", "list_permissions")
    \/ \E o \in PoolOutcomes : Respond("A", o)
    \/ WakeUp("A")
    \/ Return("A")
    \/ aenter
    \/ aexit
    \/ close_begin
    \/ close_end

SpecPool == Init /\ [][NextPool]_vars

\* Every operation that acts on a constructed client: dispatches of every
\* method, both setters, the context manager and close().
FrameOutcomes ==
    {o \in Outcomes :
        \/ o.kind = "ok" /\ o.payload = "t2"
        \/ o.kind = "net" /\ o.exc = "ReadTimeout"
        \/ o.kind = "status" /\ o.code = 404 /\ o.body = "obj_error"
        \/ o.kind = "status" /\ o.code = 503 /\ o.body = "json_other"}

\* A client constructed with a token, a key and a budget of at most one retry.
InitFrame ==
    Init /\ access_token = "t1" /\ api_key = "k1" /\ max_retries \in -1..1

NextFrame ==
    \/ \E op \in Ops : Call("A", op)
    \/ \E o \in FrameOutcomes : Respond("A", o)
    \/ WakeUp("A")
    \/ Return("A")
    \/ \E tok \in SetTokens : set_access_token(tok)
    \/ \E key \in SetKeys : set_api_key(key)
    \/ aenter
    \/ aexit
    \/ close_begin
    \/ close_end

SpecFrame == InitFrame /\ [][NextFrame]_vars

\* The constructor: no attribute exists before __init__ runs.  The values
\* the variables hold then are placeholders, attrs says they are not there.
InitCtor ==
    /\ access_token = None
    /\ api_key = None
    /\ max_retries = 0
    /\ _client = NoPool
    /\ pools = <<>>
    /\ closing = 0
    /\ task = [d \in Tasks |-> IdleTask]
    /\ tokenHist = {}
    /\ base_url = <<>>
    /\ attrs = {}
    /\ calc = NoCalc

NextCtor ==
    \E url \in UrlInputs, key \in InitKeys, token \in InitTokens, retries \in InitRetries :
        client_init(url, key, token, retries)

SpecCtor == InitCtor /\ [][NextCtor]_vars

\* The backoff formula over its arguments, next to a dispatcher that sleeps
\* with the default delays.
InitBackoff ==
    Init /\ access_token = None /\ api_key = None /\ max_retries = MaxRetriesBound

NextBackoff ==
    \/ \E k \in 0..MaxAttemptIdx, b \in BaseDelays, m \in MaxDelays :
          \E j \in JitterValues(backoff_delay(k, b, m)) : backoff_wait(k, b, m, j)
    \/ Call("A", "list_permissions")
    \/ \E o \in PoolOutcomes : Respond("A", o)
    \/ WakeUp("A")
    \/ Return("A")

SpecBackoff == InitBackoff /\ [][NextBackoff]_vars

\* The permission grammar, which needs no client: calls of matches over the
\* catalogue and the wildcard forms.
InitPerm ==
    Init /\ access_token = None /\ api_key = None /\ max_retries = MaxRetriesBound

NextPerm ==
    \E held \in PermInputs, required \in PermInputs : matches_call(held, required)

SpecPerm == InitPerm /\ [][NextPerm]_vars

\* The methods that are handed or could read an API key, on a client whose
\* stored key is set at construction and replaced by set_api_key.
KeyOps == {"register_persona", "verify_agent", "list_permissions"}
KeyOutcomes ==
    {o \in Outcomes :
        \/ o.kind = "ok" /\ o.payload = "t2"
        \/ o.kind = "net" /\ o.exc = "ConnectError"
        \/ o.kind = "status" /\ o.code = 404 /\ o.body = "obj_error"}

NextKey ==
    \/ \E op \in KeyOps : Call("A", op)
    \/ \E o \in KeyOutcomes : Respond("A", o)
    \/ WakeUp("A")
    \/ Return("A")
    \/ \E tok \in SetTokens : set_access_token(tok)
    \/ \E key \in SetKeys : set_api_key(key)

SpecKey == Init /\ [][NextKey]_vars

\* The registry of permission constants: every attribute path of up to
\* three names.
NextRegistry == \E path \in RegistryPaths : registry_call(path)

SpecRegistry == InitPerm /\ [][NextRegistry]_vars

\* register_agent with one permission string, well-formed or not.
MaxPermLen == 5    \* characters of a permission string given to register_agent
PermChars == {"a", "A", ":", "*"}
PermStrings == UNION {[1..n -> PermChars] : n \in 0..MaxPermLen}

NextRegister ==
    \/ \E p \in PermStrings : register_agent("A", <<p>>)
    \/ \E o \in PoolOutcomes : Respond("A", o)
    \/ WakeUp("A")
    \/ Return("A")

SpecRegister == InitPerm /\ [][NextRegister]_vars

\* has_permission on its own: one evaluation per behaviour, over every
\* subset of the held permissions and every string asked for.
NextHas ==
    \E held_set \in SUBSET HeldPool, required \in RequiredInputs :
        has_permission_call(held_set, required)
SpecHas == InitPerm /\ [][NextHas]_vars

\* ---------------------------------------------------------------- claims
Final == {"done", "failed"}
\* The transport call of d ends in this step.
Answered(d) == task[d].pc = "inflight" /\ task'[d].outcome.kind # "none"
\* d builds and issues an attempt in this step.
Issued(d) == task'[d].calls = task[d].calls + 1
TerminalStatus(o) == o.kind = "status" /\ o.code \in 400..499 /\ o.code # 429
\* A failure the classifier of the specification calls retryable.
SpecRetryable(o) ==
    \/ o.kind = "net"
    \/ o.kind = "status" /\ (o.code >= 500 \/ o.code = 429)

\* C1: an attempt that ends with status >= 500 or 429 at index k < max_retries
\* is followed by a backoff wait (and then another transport call), so that
\* 503, 503, 2xx under max_retries = 3 returns the body after 3 calls.
C1_ServerErrorRetried ==
    [][\A d \in Tasks :
          ( /\ Answered(d)
            /\ task'[d].outcome.kind = "status"
            /\ (task'[d].outcome.code >= 500 \/ task'[d].outcome.code = 429)
            /\ task[d].attempt < max_retries )
          => /\ task'[d].pc = "waiting"
             /\ task'[d].waits = task[d].waits + 1]_vars

\* C2: an attempt that ends with a status in 400-428 or 430-499 fails the
\* dispatch at once, with no wait and no further call, and the surfaced error
\* carries that status code.
C2_TerminalStatusSurfaced ==
    \A d \in Tasks :
        (task[d].pc \in Final /\ TerminalStatus(task[d].outcome))
        => /\ task[d].pc = "failed"
           /\ task[d].calls = task[d].attempt + 1
           /\ task[d].waits = task[d].attempt
           /\ task[d].method.ret = "raise"
           /\ task[d].method.exc.status_code = task[d].outcome.code

\* C3: with max_retries >= 0 a dispatch makes at most max_retries + 1
\* transport calls, whatever the transport answers.
C3_AttemptsBounded ==
    max_retries >= 0 => \A d \in Tasks : task[d].calls <= max_retries + 1

C3_Witness ==
    \E d \in Tasks :
        /\ max_retries >= 2
        /\ task[d].pc = "failed"
        /\ task[d].calls = max_retries + 1

\* C4: a transport-level failure (httpx RequestError) at attempt k is followed
\* by a backoff wait and another attempt when k < max_retries, and is
\* surfaced to the caller only when k = max_retries.
C4_NetworkFailureRetried ==
    /\ [][\A d \in Tasks :
             (Answered(d) /\ task'[d].outcome.kind = "net")
             => IF task[d].attempt < max_retries
                THEN /\ task'[d].pc = "waiting"
                     /\ task'[d].waits = task[d].waits + 1
                     /\ task'[d].method = Pending
                ELSE /\ task'[d].pc = "failed"
                     /\ task'[d].method.exc.type = task'[d].outcome.exc]_vars
    /\ [][\A d \in Tasks :
             (task[d].pc = "waiting" /\ task'[d] # task[d])
             => /\ Issued(d)
                /\ task'[d].attempt = task[d].attempt + 1
                /\ task'[d].pc = "inflight"]_vars
    /\ [](\A d \in Tasks :
             (task[d].pc = "failed" /\ task[d].method.exc.type \in RequestErrorTypes)
             => task[d].attempt = max_retries)
    /\ \A d \in Tasks : (task[d].pc = "waiting") ~> (task[d].pc = "inflight")

C4_Witness ==
    \E d \in Tasks :
        /\ task[d].pc = "failed"
        /\ task[d].method.exc.type = "ReadTimeout"
        /\ task[d].attempt = max_retries
        /\ task[d].waits >= 1

\* C5: when verify_agent or refresh_token is answered 2xx, the method returns
\* and the stored access token is the access token of the response.
C5_TokenRotated ==
    [][\A d \in Tasks :
          ( /\ Answered(d)
            /\ task[d].op \in RotatingOps
            /\ task'[d].outcome.kind = "ok" )
          => /\ task'[d].method.ret = "return"
             /\ access_token' = task'[d].outcome.payload]_vars

\* C6: an attempt carries Authorization: Bearer t iff the dispatch requires
\* auth and the session's token t is non-empty when the headers are built;
\* every attempt carries the JSON content type; a dispatch that requires auth
\* and finds no token is sent all the same, without the header.
C6_BearerHeader ==
    [][\A d \in Tasks :
          Issued(d)
          => /\ task'[d].headers.content_type = "application/json"
             /\ (task'[d].headers.authorization # Absent)
                   <=> (RequiresAuth(task'[d].op) /\ access_token \notin {None, ""})
             /\ task'[d].headers.authorization # Absent
                   => task'[d].headers.authorization = access_token
             /\ task'[d].pc = "inflight"]_vars

C6_Witness ==
    \E d \in Tasks :
        /\ task[d].pc = "inflight"
        /\ RequiresAuth(task[d].op)
        /\ access_token = ""
        /\ "t1" \in tokenHist
        /\ task[d].attempt >= 1
        /\ task[d].headers.authorization = Absent

\* C7: a token replacement while a dispatch is in flight leaves the headers
\* of the attempts already built as they are; every attempt built after it,
\* retries included, carries the token stored then; no attempt carries a value
\* that was never the stored token.
C7_TokenReadPerAttempt ==
    /\ [][\A d \in Tasks :
             (~Issued(d) /\ task'[d].pc # "idle") => task'[d].headers = task[d].headers]_vars
    /\ [][\A d \in Tasks :
             (Issued(d) /\ RequiresAuth(task'[d].op) /\ Truthy(access_token))
             => task'[d].headers.authorization = access_token]_vars
    /\ [](\A d \in Tasks :
             task[d].headers.authorization \in {Absent} \cup tokenHist)

C7_Witness ==
    \E d, e \in Tasks :
        /\ d # e
        /\ task[d].pc = "inflight" /\ task[d].attempt >= 1
        /\ task[d].headers.authorization = "t1"
        /\ task[e].pc = "inflight" /\ task[e].attempt >= 1
        /\ task[e].headers.authorization = Absent /\ RequiresAuth(task[e].op)
        /\ access_token = "t1"

C10_ReleasedOnce ==
    \A p \in 1..Len(pools) : pools[p].acloses <= 1

\* C11: the pool is created by a send only, and a pool that has not been
\* released is the one the client holds: there is at most one unreleased pool
\* and none is replaced or dropped, whatever dispatches, context-manager
\* entries and close() calls happen.
C11_PoolNeverLeaked ==
    /\ [](\A p \in 1..Len(pools) : pools[p].acloses = 0 => _client = p)
    /\ [][Len(pools') > Len(pools) => \E d \in Tasks : Issued(d)]_vars

\* C14: every non-2xx response, whatever its body, makes the attempt end with
\* the SDK error AgentAuthError whose message is the body's "error" field
\* when the body is an object that has one and the status line otherwise,
\* and whose status code is the response's; no other exception takes its place.
C14_StatusBecomesSdkError ==
    \A d \in Tasks :
        (task[d].outcome.kind = "status" /\ task[d].pc # "inflight")
        => /\ task[d].last_exception.type = "AgentAuthError"
           /\ task[d].last_exception.status_code = task[d].outcome.code
           /\ task[d].last_exception.message =
                 IF task[d].outcome.body = "obj_error" THEN "body.error" ELSE "status_line"

\* C13 as stated: the transport call is no suspension point, so every step
\* taken while a dispatch is in its transport call is that call's own end.
C13_OnlyBackoffSuspends ==
    [][\A d \in Tasks : task[d].pc = "inflight" => Answered(d)]_vars

\* C13, amended: a dispatch is suspended at the transport call of an attempt
\* or at the backoff wait and nowhere else.  At the transport call the
\* attempt is built and issued and has no outcome yet; at the wait the outcome
\* of the attempt is classified as a retryable failure below the budget; the
\* end of a transport call leads in the same step to the return, the raise or
\* the wait; and a step belongs to one coroutine.
C13_SuspensionPoints ==
    /\ [](\A d \in Tasks :
             /\ task[d].pc \in {"idle", "inflight", "waiting", "done", "failed"}
             /\ task[d].pc = "inflight"
                   => /\ task[d].outcome = NoOutcome
                      /\ task[d].result = Pending /\ task[d].method = Pending
                      /\ task[d].headers.content_type # Absent
                      /\ task[d].calls = task[d].attempt + 1
                      /\ task[d].waits = task[d].attempt
             /\ task[d].pc = "waiting"
                   => /\ task[d].outcome.kind \in {"net", "status"}
                      /\ task[d].last_exception = make_request(task[d].outcome).exc
                      /\ is_retryable_error(task[d].last_exception)
                      /\ task[d].attempt < max_retries
                      /\ task[d].method = Pending
                      /\ task[d].calls = task[d].attempt + 1
                      /\ task[d].waits = task[d].attempt + 1
             /\ task[d].pc \in Final => task[d].method.ret \in {"return", "raise"})
    /\ [][\A d \in Tasks :
             /\ Answered(d) => task'[d].pc \in {"done", "failed", "waiting"}
             /\ task'[d] # task[d] => \A e \in Tasks \ {d} : task'[e] = task[e]
             /\ (task'[d] # task[d] /\ task[d].pc \in {"inflight", "waiting"})
                   => (access_token' = access_token \/ Answered(d))]_vars

\* One dispatch is suspended in its transport call with the header built from
\* a token that has been replaced since, while another is in its backoff wait.
C13_Witness ==
    \E d, e \in Tasks :
        /\ task[d].pc = "inflight" /\ task[d].attempt >= 1
        /\ task[d].headers.authorization = "t1"
        /\ access_token = ""
        /\ task[e].pc = "waiting" /\ task[e].waits >= 2

\* C12: a step changes access_token only when it is set_access_token (which
\* touches nothing else) or the 2xx answer of a verify_agent / refresh_token
\* that returns, the new value being the token of that answer; a step changes
\* api_key only when it is set_api_key; a dispatch step that ends in an error
\* and every pool operation leave both as they were.
C12_TokenFrame ==
    [][/\ access_token' # access_token
            => \/ /\ task' = task /\ api_key' = api_key
                  /\ _client' = _client /\ pools' = pools /\ closing' = closing
               \/ \E d \in Tasks :
                     /\ Answered(d)
                     /\ task[d].op \in RotatingOps
                     /\ task'[d].outcome.kind = "ok"
                     /\ task'[d].method.ret = "return"
                     /\ access_token' = task'[d].outcome.payload
       /\ api_key' # api_key
            => /\ task' = task /\ access_token' = access_token
               /\ _client' = _client /\ pools' = pools /\ closing' = closing
       /\ (task' # task \/ pools' # pools \/ _client' # _client \/ closing' # closing)
            => api_key' = api_key
       /\ \A d \in Tasks :
             (task'[d] # task[d] /\ task'[d].method.ret # "return")
             => access_token' = access_token]_vars

\* verify_agent was answered 2xx with token t2, ended in an error, and the
\* session still holds the token and the key set before it.
C12_Witness ==
    \E d \in Tasks :
        /\ task[d].pc = "done" /\ task[d].op = "verify_agent"
        /\ task[d].attempt >= 1
        /\ task[d].outcome.payload = "t2"
        /\ task[d].method.ret = "raise"
        /\ access_token = "t1" /\ api_key = "k2"
        /\ Len(pools) = 2

\* The verdict the dispatcher's classifier gives, as a function of the kind
\* of the failure and its HTTP status.
C16_Verdict(kind, code) == kind = "net"

\* C16: the retryable verdict of a failure is a function of its kind and
\* status code: the exception of every failed attempt, at every attempt index
\* and for every max_retries, is classified like every other transport outcome
\* of the same kind and status, its verdict is that of its kind and status,
\* and below the budget the dispatch waits exactly when that verdict is true.
C16_VerdictByKindAndStatus ==
    /\ [](\A d \in Tasks, o \in StatusOutcomes \cup NetOutcomes :
             ( /\ task[d].pc \in {"waiting", "failed"}
               /\ o.kind = task[d].outcome.kind /\ o.code = task[d].outcome.code )
             => is_retryable_error(make_request(o).exc)
                   = is_retryable_error(task[d].last_exception))
    /\ [](\A d \in Tasks :
             (task[d].pc \in {"waiting", "failed"} /\ task[d].outcome.kind # "none")
             => is_retryable_error(task[d].last_exception)
                   = C16_Verdict(task[d].outcome.kind, task[d].outcome.code))
    /\ [][\A d \in Tasks :
             ( /\ Answered(d)
               /\ task'[d].outcome.kind # "ok"
               /\ task[d].attempt < max_retries )
             => ((task'[d].pc = "waiting")
                    <=> C16_Verdict(task'[d].outcome.kind, task'[d].outcome.code))]_vars

\* A timeout at the last attempt index, after earlier waits: retryable by
\* verdict, surfaced because the budget is spent.
C16_Witness ==
    \E d \in Tasks :
        /\ task[d].pc = "failed"
        /\ max_retries >= 2
        /\ task[d].attempt = max_retries
        /\ task[d].waits = max_retries
        /\ task[d].outcome.exc = "ReadTimeout"
        /\ is_retryable_error(task[d].last_exception)

\* C15: when every transport call and every backoff wait completes, a
\* dispatch that has started ends in done (a result is returned) or failed
\* (an error is raised); the dispatch moves only idle -> attempting,
\* attempting -> done / failed / waiting, waiting -> attempting (with the
\* next attempt index) or failed; it waits at most max_retries times; and a
\* dispatch that has ended holds a result or an error.
C15_DispatchTerminates ==
    /\ \A d \in Tasks : (task[d].pc \in {"inflight", "waiting"}) ~> (task[d].pc \in Final)
    /\ [][\A d \in Tasks :
             task'[d].pc # task[d].pc
             => \/ task[d].pc = "idle" /\ task'[d].pc \in {"inflight", "failed"}
                \/ task[d].pc = "inflight" /\ task'[d].pc \in {"done", "failed", "waiting"}
                \/ /\ task[d].pc = "waiting" /\ task'[d].pc \in {"inflight", "failed"}
                   /\ task'[d].attempt = task[d].attempt + 1
                \/ task[d].pc \in Final /\ task'[d].pc = "idle"]_vars
    /\ [](\A d \in Tasks :
             /\ task[d].waits <= (IF max_retries >= 0 THEN max_retries ELSE 0)
             /\ task[d].waits <= task[d].attempt + 1
             /\ task[d].pc = "done" => task[d].result.ret = "return"
             /\ task[d].pc = "failed"
                   => task[d].result.ret = "raise" /\ task[d].result.exc # NoExc)

\* A dispatch that has gone through the cycle max_retries times and then
\* got its result.
C15_Witness ==
    \E d \in Tasks :
        /\ max_retries >= 3
        /\ task[d].pc = "done"
        /\ task[d].waits = max_retries
        /\ task[d].result.ret = "return"

\* C17: the constructor raises ValueError exactly when the base URL is empty,
\* begins with neither http:// nor https://, or ends with "/"; when it
\* raises, no attribute and no pool exists and nothing was sent; otherwise
\* the URL is stored as given, with the other arguments, so a stored base URL
\* has an http(s) scheme and no trailing slash.
C17_BaseUrlValidated ==
    calc.fn = "__init__" =>
        LET u == calc.url
            scheme == \/ Len(u) >= 7 /\ SubSeq(u, 1, 7) = Http
                      \/ Len(u) >= 8 /\ SubSeq(u, 1, 8) = Https
            bad == u = <<>> \/ ~scheme \/ u[Len(u)] = "/"
        IN  /\ (calc.out.ret = "raise") <=> bad
            /\ bad => /\ calc.out.exc.type = "ValueError"
                      /\ attrs = {}
                      /\ _client = NoPool /\ pools = <<>>
                      /\ \A d \in Tasks : task[d] = IdleTask
            /\ ~bad => /\ attrs = AllAttrs
                       /\ base_url = u
                       /\ SubSeq(base_url, 1, 7) = Http \/ SubSeq(base_url, 1, 8) = Https
                       /\ base_url[Len(base_url)] # "/"
                       /\ _client = NoPool /\ pools = <<>>
                       /\ \A d \in Tasks : task[d] = IdleTask

\* An https URL with a slash and a colon inside is accepted and stored.
C17_Witness ==
    /\ calc.fn = "__init__"
    /\ calc.out.ret = "return"
    /\ base_url = Https \o <<"x", "/", "x">>
    /\ attrs = AllAttrs
    /\ max_retries = 2

\* C18: the wait after failed attempt k is at least
\* raw = min(base_delay * 2^k, max_delay) and at most 1.3 * raw, hence at
\* most 1.3 * max_delay; in the dispatcher the exponent is the index of the
\* attempt that has just failed, so the first wait is built on base_delay.
C18_WaitBounds ==
    /\ calc.fn = "backoff" =>
          LET pow == calc.base_delay * (2 ^ calc.attempt)
              raw == IF pow <= calc.max_delay THEN pow ELSE calc.max_delay
          IN  /\ calc.delay = raw
              /\ raw <= calc.total_delay
              /\ 10 * calc.total_delay <= 13 * raw
              /\ 10 * calc.total_delay <= 13 * calc.max_delay
    /\ \A d \in Tasks :
          task[d].pc = "waiting" =>
             LET pow == DefaultBaseDelay * (2 ^ task[d].attempt)
             IN  /\ task[d].delay = IF pow <= DefaultMaxDelay THEN pow ELSE DefaultMaxDelay
                 /\ task[d].waits = 1 => task[d].delay = DefaultBaseDelay

\* The capped delay with the largest jitter, and a dispatch in its third
\* wait, 4.0 s before jitter.
C18_Witness ==
    /\ calc.fn = "backoff"
    /\ calc.attempt = 4 /\ calc.base_delay = 10 /\ calc.max_delay = 100
    /\ calc.total_delay = 130
    /\ \E d \in Tasks :
          task[d].pc = "waiting" /\ task[d].attempt = 2 /\ task[d].delay = 40

\* C19 as stated: whenever the capped delay of attempt k is below max_delay,
\* every wait that can be drawn at attempt k + 1 is at least the wait drawn
\* at attempt k.
C19_MonotoneBelowCap ==
    (calc.fn = "backoff" /\ calc.delay < calc.max_delay) =>
        LET next == backoff_delay(calc.attempt + 1, calc.base_delay, calc.max_delay)
        IN  \A j \in JitterValues(next) : total_delay(next, j) >= calc.total_delay

\* C19, amended: the delay without jitter never decreases from attempt k to
\* k + 1, and when base_delay * 2^(k+1) <= max_delay (the next delay is not
\* cut by the cap) every wait that can be drawn at attempt k + 1 is at least
\* the wait drawn at attempt k.
C19_MonotoneUncapped ==
    calc.fn = "backoff" =>
        LET next == backoff_delay(calc.attempt + 1, calc.base_delay, calc.max_delay)
        IN  /\ next >= calc.delay
            /\ calc.base_delay * (2 ^ (calc.attempt + 1)) <= calc.max_delay
                  => \A j \in JitterValues(next) : total_delay(next, j) >= calc.total_delay

\* The largest wait of attempt 2 (4.0 s + 1.2 s), below every wait of attempt 3.
C19_Witness ==
    /\ calc.fn = "backoff"
    /\ calc.attempt = 2 /\ calc.base_delay = 10 /\ calc.max_delay = 100
    /\ calc.total_delay = 52

\* C20: matches(held, required) is true exactly when no position has a held
\* segment that is neither "*" nor required's segment; "svc:*:*" matches every
\* "svc:res:act"; "svc:res:act" matches "svc:*:*" only when res and act are
\* "*"; permissions of two different literal services do not match.
C20_MatchesWildcards ==
    calc.fn = "matches" =>
        LET h == calc.held
            r == calc.required
        IN  /\ calc.out <=> ~(\E i \in {1, 2, 3} : h[i] # <<"*">> /\ h[i] # r[i])
            /\ (h[1] = r[1] /\ h[2] = <<"*">> /\ h[3] = <<"*">>) => calc.out
            /\ (h[1] = r[1] /\ h[1] # <<"*">> /\ r[2] = <<"*">> /\ r[3] = <<"*">>)
                  => (calc.out <=> (h[2] = <<"*">> /\ h[3] = <<"*">>))
            /\ (h[1] # <<"*">> /\ r[1] # <<"*">> /\ h[1] # r[1]) => ~calc.out

\* The relation is not symmetric: the wildcard of the service github matches
\* a catalogue permission that does not match it.
C20_Witness ==
    /\ calc.fn = "matches"
    /\ calc.held = <<<<"g", "i", "t", "h", "u", "b">>, <<"*">>, <<"*">>>>
    /\ calc.required \in Permission
    /\ calc.required[2] = <<"p", "u", "l", "l", "_", "r", "e", "q", "u", "e", "s", "t", "s">>
    /\ calc.required[3] = <<"r", "e", "a", "d">>
    /\ calc.out
    /\ ~matches(calc.required, calc.held)

\* C23: every attempt a dispatch issues, first or retry, goes to a pool that
\* has not been released, and no pool is released under a transport call in
\* progress on it, whatever close() calls and context-manager exits came
\* before.
C23_NoCallOnReleasedPool ==
    /\ [][\A d \in Tasks : Issued(d) => ~pools'[task'[d].pool].closed]_vars
    /\ [](\A d \in Tasks : task[d].pc = "inflight" => ~pools[task[d].pool].closed)

\* C25: with max_retries >= 0 no dispatch reaches the code after the attempt
\* loop: it ends by returning the result of an attempt or by raising the
\* exception of an attempt.  With max_retries < 0 a dispatch makes no
\* transport call and no wait and fails with
\* AgentAuthError("Retry failed with no exception").
C25_AfterLoopUnreachable ==
    \A d \in Tasks :
        /\ task[d].after_loop => max_retries < 0
        /\ (max_retries >= 0 /\ task[d].pc = "done")
              => /\ task[d].calls >= 1
                 /\ task[d].result = make_request(task[d].outcome)
        /\ (max_retries >= 0 /\ task[d].pc = "failed")
              => /\ task[d].calls >= 1
                 /\ task[d].last_exception # NoExc
                 /\ task[d].result = Raised(task[d].last_exception)
        /\ max_retries < 0
              => /\ task[d].calls = 0 /\ task[d].waits = 0
                 /\ task[d].pc \in {"idle", "failed"}
                 /\ task[d].pc = "failed"
                       => /\ task[d].after_loop
                          /\ task[d].method.ret = "raise"
                          /\ task[d].method.exc.type = "AgentAuthError"
                          /\ task[d].method.exc.message = "Retry failed with no exception"

\* A dispatch of a client constructed with max_retries = -1 has failed
\* without a transport call.
C25_Witness ==
    \E d \in Tasks :
        /\ max_retries = -1
        /\ task[d].pc = "failed"
        /\ task[d].after_loop
        /\ task[d].calls = 0
        /\ _client = NoPool
        /\ task[d].method.exc.message = "Retry failed with no exception"

\* What a dispatch shows to the transport and to its caller: everything but
\* the method's local headers.
C24_Observable(t) == [t EXCEPT !.locals = Absent]

Lower ==
    {"a", "b", "c", "d", "e", "f", "g", "h", "i", "j", "k", "l", "m",
     "n", "o", "p", "q", "r", "s", "t", "u", "v", "w", "x", "y", "z"}
Digits == {"0", "1", "2", "3", "4", "5", "6", "7", "8", "9"}
\* ^[a-z][a-z0-9_]*$
Identifier(seg) ==
    /\ seg # <<>>
    /\ seg[1] \in Lower
    /\ \A i \in 1..Len(seg) : seg[i] \in Lower \cup Digits \cup {"_"}
\* Exactly three colon-separated segments, each "*" or an identifier.
WellFormed(s) ==
    /\ Cardinality({i \in 1..Len(s) : s[i] = ":"}) = 2
    /\ \A i \in 1..Len(s) :
          (i = 1 \/ s[i - 1] = ":")
          => LET ends == {k \in i..(Len(s) + 1) : k = Len(s) + 1 \/ s[k] = ":"}
                 e == CHOOSE k \in ends : \A m \in ends : k <= m
                 seg == SubSeq(s, i, e - 1)
             IN  seg = <<"*">> \/ Identifier(seg)
    /\ s # <<>> /\ s[Len(s)] # ":"

\* C26: every constant the Permissions registry gives, and every member of
\* the Permission type, has exactly three colon-separated segments, each "*"
\* or a lowercase identifier; and every registry constant is a member of the
\* Permission type.
C26_RegistryWellFormed ==
    /\ \A p \in PermissionLiterals : WellFormed(p)
    /\ calc.fn = "Permissions" =>
          /\ calc.got.out = "value"
                => /\ WellFormed(calc.got.value)
                   /\ calc.got.value \in PermissionLiterals
          /\ (\E e \in Registry : e.path = calc.path) => calc.got.out = "value"

\* Permissions.GitHub.PullRequests.Read gave "github:pull_requests:read".
C26_Witness ==
    /\ calc.fn = "Permissions"
    /\ calc.path = <<"GitHub", "PullRequests", "Read">>
    /\ calc.got.out = "value"
    /\ calc.got.value = <<"g", "i", "t", "h", "u", "b", ":", "p", "u", "l", "l", "_",
                          "r", "e", "q", "u", "e", "s", "t", "s", ":", "r", "e", "a", "d">>

\* C22: a permission that has not exactly three non-empty colon-separated
\* segments, each "*" or matching ^[a-z][a-z0-9_]*$, is rejected before a
\* register_agent request carries it: every permission in the body of a
\* request that was issued is well-formed, and a call with a malformed one
\* fails without a transport call.
C22_MalformedNeverSent ==
    \A d \in Tasks :
        (task[d].op = "register_agent" /\ task[d].calls >= 1)
        => \A i \in 1..Len(task[d].permissions) : WellFormed(task[d].permissions[i])

\* C21: has_permission(held_set, required) is true exactly when required is
\* well-formed and some element of held_set matches it: false for every
\* required when held_set is empty, false for a malformed required even when
\* held_set contains "*:*:*", true for ({zendesk:*:*}, zendesk:tickets:write)
\* and false for ({zendesk:tickets:read}, zendesk:tickets:write).
C21_HasPermission ==
    calc.fn = "has_permission" =>
        /\ calc.out \in BOOLEAN
        /\ calc.out <=>
              /\ WellFormed(calc.required)
              /\ \E h \in calc.held_set :
                    \A i \in 1..3 :
                       \/ split(h, ":")[i] = <<"*">>
                       \/ split(h, ":")[i] = split(calc.required, ":")[i]
        /\ calc.held_set = {} => ~calc.out
        /\ ~WellFormed(calc.required) => ~calc.out
        /\ (calc.held_set = {ZendeskAll} /\ calc.required = ZendeskTicketsWrite)
              => calc.out
        /\ (calc.held_set = {ZendeskTicketsRead} /\ calc.required = ZendeskTicketsWrite)
              => ~calc.out
C21_Witness ==
    /\ calc.fn = "has_permission"
    /\ Admin \in calc.held_set
    /\ calc.required \in Malformed
    /\ ~WellFormed(calc.required)
    /\ calc.out = FALSE

====
